---- MODULE Spec2Model ----
(***************************************************************************)
(* Start/stop state machines of the two screen recorders of app-veil:      *)
(*   push : src/test.py  (ScreenCaptureKit stream + AVAssetWriter)          *)
(*   pull : src/test2.py (mss grab loop + cv2.VideoWriter)                  *)
(* One behaviour runs one of the two programs (variable variant).          *)
(* The overlay program src/main.py has a specification of its own, VeilSpec.*)
(* Threads: the Tk main thread (Start, Stop, polls, after-callbacks), the  *)
(* worker threads spawned by Start, and the platform callback threads.     *)
(* Every step of a thread that reads or writes a shared field is one       *)
(* action, so the interleavings of the threads are the behaviours.         *)
(***************************************************************************)
EXTENDS Integers, Sequences, FiniteSets, TLC

\* ------------------------------------------------------------------ bounds
MaxSessions == 2    \* Start calls that spawn a worker thread
MaxStops    == 2    \* shutdown chains of accepted Stop calls in flight at once (push)
MaxLoad     == 3    \* worker threads started plus shutdown chains in flight (push)
MaxFrames   == 1    \* frames appended to one writer
MaxClock    == 1    \* seconds of the wall clock used for the file name
MaxPts      == 2    \* sample buffers whose presentation time stamp is read (push)
MaxElapsed  == 120  \* milliseconds one grab and write may take (PaceSpec)
MaxLaps     == 2    \* iterations of the capture loop (PaceSpec)
MaxWindows  == 2    \* windows that may be on screen (VeilSpec)
MaxY        == 1    \* largest top edge of a window, in CoreGraphics coordinates (VeilSpec)
MaxHeight   == 2    \* largest height of a window (VeilSpec)
ScreenHeight == 4   \* height of the main screen (VeilSpec)

Sessions == 1..MaxSessions
StopIds  == 1..MaxStops
None     == 0
NoName   == -1      \* no file name yet (time stamps are 0..MaxClock)
NoTime   == -1      \* no presentation time yet (time stamps are 0..MaxPts)

VARIABLES
  variant,      \* "push" (test.py) or "pull" (test2.py)
  now,          \* wall clock, in seconds
  files,        \* names of the output files on disk
  lastOp,       \* the last Start/Stop call and what it did, or what became of the last
                \* frame handled ("step" after any other step)
  status_var,   \* tk.StringVar shown in the window: the status the user observes
  \* ---- push recorder (test.py, ScreenRecorder ivars)
  status, isRecording, sessionBegan,
  stream_, writer_, videoInput_, adaptor_,
  work,         \* work[s]: position of the worker thread of the s-th Start
  url,          \* url[s]: the local `url` of worker s (its time stamp), None before
  streams,      \* streams[s]: state of the SCStream created by worker s
  writers,      \* writers[s]: the AVAssetWriter created by worker s
  inputOf,      \* inputOf[s]: writer the AVAssetWriterInput of worker s was added to
  stopPc,       \* stopPc[k]: position of the k-th accepted Stop's shutdown chain
  stopStream,   \* stopStream[k]: the stream that Stop asked to stop
  stopW,        \* stopW[k]: the writer whose finishWriting that chain waits for
  pts,          \* presentation time stamp of the next sample buffer that passes the
                \* guard of the frame handler (time stamps increase frame by frame)
  \* ---- pull recorder (test2.py, ScreenRecorder attributes)
  is_recording, video_writer, sct, filepath,
  rec,          \* rec[s]: position of _record_worker of the s-th Start
  loc,          \* loc[s]: locals of that worker: video_writer_initialized_successfully,
                \* filename, and where the exception it caught was raised
  vwriters,     \* vwriters[s]: the cv2.VideoWriter created by worker s
  afterQ,       \* statuses of the status_var.set callbacks posted with root.after(0, ...)
  \* ---- the content filter of the push recorder (test.py:164-185), see FilterSpec
  running,      \* bundle identifiers of content.applications()
  selector,     \* the SCContentFilter initialiser the platform offers
  filterApps,   \* the applications the filter built lets into the frames
  fpc,          \* "off", "discovered" (content at hand), "built" (filter_ assigned)
  \* ---- the frame pacing of the pull recorder (test2.py:145-160), see PaceSpec;
  \* times are in milliseconds
  elapsed,      \* elapsed_time of the last iteration
  slept,        \* what the last iteration slept (0 when time.sleep was not called)
  captures,     \* frames grabbed and written so far
  laps,         \* iterations of the loop completed so far
  ppc,          \* "off", "top" (at the loop test), "pace" (frame written)
  \* ---- the overlay program (main.py), see VeilSpec
  screen,       \* the on-screen windows: window id -> [owner, bounds]
  current,      \* main's `current`: window id -> bounds, the snapshot of this iteration
  veil_windows, \* main's `veil_windows`: window id -> overlay window, or None
  overlays,     \* overlays[o]: the NSWindow o: "none", "hidden" or "shown", and its frame
  win_id,       \* the window whose new overlay is about to be ordered front, or None
  todo,         \* the window ids the running for loop has still to visit
  vpc           \* "off", "poll", "sync", "front", "remove", "crashed"

gui      == <<status_var>>
pushVars == <<status, isRecording, sessionBegan, stream_, writer_, videoInput_,
              adaptor_, work, url, streams, writers, inputOf, stopPc, stopStream, stopW,
              pts>>
pullVars == <<is_recording, video_writer, sct, filepath, rec, loc, vwriters, afterQ>>
filterVars == <<running, selector, filterApps, fpc>>
paceVars == <<elapsed, slept, captures, laps, ppc>>
veilVars == <<screen, current, veil_windows, overlays, win_id, todo, vpc>>
sideVars == <<filterVars, paceVars, veilVars>>
vars     == <<variant, now, files, lastOp, gui, pushVars, pullVars, sideVars>>

\* A status is <<kind, name>>; name is the file's time stamp where the text carries it.
St(kind, name) == <<kind, name>>
Kind(s) == s[1]

\* ------------------------------------------------------------------ Init
\* test.py:61-69 (init), 304 (status_var)
InitPush ==
  /\ status = St("Idle", NoName)
  /\ isRecording = FALSE
  /\ sessionBegan = FALSE
  /\ stream_ = None /\ writer_ = None /\ videoInput_ = None /\ adaptor_ = None
  /\ work = [s \in Sessions |-> "none"]
  /\ url = [s \in Sessions |-> NoName]
  /\ streams = [s \in Sessions |-> "none"]
  /\ writers = [s \in Sessions |-> [st |-> "none", url |-> NoName, began |-> FALSE,
                                     marked |-> FALSE, frames |-> 0,
                                     t0 |-> NoTime, app |-> {}]]
  /\ inputOf = [s \in Sessions |-> None]
  /\ stopPc = [k \in StopIds |-> "none"]
  /\ stopStream = [k \in StopIds |-> None]
  /\ stopW = [k \in StopIds |-> None]
  /\ pts = 0

\* test2.py:14-24, 53-66
InitPull ==
  /\ is_recording = FALSE
  /\ video_writer = None
  /\ sct = None
  /\ filepath = NoName
  /\ rec = [s \in Sessions |-> "none"]
  /\ loc = [s \in Sessions |-> [init |-> FALSE, filename |-> NoName, err |-> "none"]]
  /\ vwriters = [s \in Sessions |-> [st |-> "none", path |-> NoName, frames |-> 0]]
  /\ afterQ = <<>>

\* the filter computation is not running
FilterOff == running = {} /\ selector = "applications" /\ filterApps = {} /\ fpc = "off"

InitRecorder ==
  /\ now = 0
  /\ files = {}
  /\ lastOp = "init"
  /\ status_var = St("Idle", NoName)
  /\ InitPush
  /\ InitPull

\* the pacing computation is not running
PaceOff == elapsed = 0 /\ slept = 0 /\ captures = 0 /\ laps = 0 /\ ppc = "off"

\* a table without entries, a frame of no window
NoEntries == [w \in {} |-> None]
NoFrame == [y |-> 0, h |-> 0]
OverlayIds == 1..MaxWindows

\* the overlay program is not running
VeilOff ==
  /\ screen = NoEntries /\ current = NoEntries /\ veil_windows = NoEntries
  /\ overlays = [o \in OverlayIds |-> [st |-> "none", frame |-> NoFrame]]
  /\ win_id = None /\ todo = {} /\ vpc = "off"

Init ==
  /\ variant \in {"push", "pull"}
  /\ InitRecorder
  /\ FilterOff
  /\ PaceOff
  /\ VeilOff

\* The wall clock advances.  The clock is read only where a worker names its file
\* (test.py:201, test2.py:114) and only the equality of two names is observable, so
\* the model advances it only when a worker is about to read it and the current
\* second already names a file.
Tick ==
  /\ now < MaxClock
  /\ \E s \in Sessions : work[s] = "writer" \/ rec[s] = "path"
  /\ \E s \in Sessions : url[s] = now \/ loc[s].filename = now
  /\ now' = now + 1
  /\ lastOp' = "step"
  /\ UNCHANGED sideVars
  /\ UNCHANGED <<variant, files, gui, pushVars, pullVars>>

\* ================================================================== push
\* The session a Start would create: the first unused worker slot.
FreeSlot(pcs) ==
  IF \E s \in Sessions : pcs[s] = "none"
  THEN CHOOSE s \in Sessions : pcs[s] = "none" /\ \A r \in Sessions : pcs[r] = "none" => s <= r
  ELSE None

\* A shutdown chain that has ended (or never ran) gives its slot to the next Stop.
ChainOver(k) == stopPc[k] \in {"none", "done", "aborted"}

FreeStop ==
  IF \E k \in StopIds : ChainOver(k)
  THEN CHOOSE k \in StopIds : ChainOver(k) /\ \A j \in StopIds : ChainOver(j) => k <= j
  ELSE None

\* A start_ whose guard tests the wrong flag (the one the first frame sets).
StartGuardSessionBegan == sessionBegan

\* The threads and chains a behaviour has used: the workers started and the shutdown
\* chains in flight.  An accepted Start or Stop needs room for one more (MaxLoad).
Load == Cardinality({s \in Sessions : work[s] # "none"})
          + Cardinality({k \in StopIds : ~ChainOver(k)})

\* test.py:76: the guard of start_
StartGuard == isRecording

\* test.py:74-88: start_ on the main thread; the closure work runs as thread s.
StartPush ==
  /\ variant = "push"
  /\ IF StartGuard
     THEN /\ lastOp' = "StartNoop"            \* callback(None); return
          /\ UNCHANGED work
     ELSE /\ FreeSlot(work) # None /\ Load < MaxLoad
          /\ work' = [work EXCEPT ![FreeSlot(work)] = "writer"]
          /\ lastOp' = "Start"
  /\ UNCHANGED <<pts, sideVars>>
  /\ UNCHANGED <<variant, now, files, gui, pullVars, status, isRecording, sessionBegan,
                 stream_, writer_, videoInput_, adaptor_, url, streams, writers, inputOf,
                 stopPc, stopStream, stopW>>

\* test.py:92: the guard of stop_
StopGuard == ~isRecording \/ stream_ = None

\* test.py:90-102: stop_ on the main thread; stopCaptureWithCompletionHandler_ is
\* asynchronous, the chain k is what the platform does afterwards.
StopPush ==
  /\ variant = "push"
  /\ IF StopGuard
     THEN /\ lastOp' = "StopNoop"             \* callback(None); return
          /\ UNCHANGED <<stopPc, stopStream, stopW>>
     ELSE /\ FreeStop # None /\ Load < MaxLoad
          /\ stopPc' = [stopPc EXCEPT ![FreeStop] = "stopCapture"]
          /\ stopStream' = [stopStream EXCEPT ![FreeStop] = stream_]
          /\ stopW' = [stopW EXCEPT ![FreeStop] = None]
          /\ lastOp' = "Stop"
  /\ UNCHANGED <<pts, sideVars>>
  /\ UNCHANGED <<variant, now, files, gui, pullVars, status, isRecording, sessionBegan,
                 stream_, writer_, videoInput_, adaptor_, work, url, streams, writers,
                 inputOf>>

\* test.py:335-340: _sync_ui, the 200 ms poll: the status text shown is the
\* recorder's status ivar.  (The enabled/disabled look of the two buttons is window
\* chrome outside the recorder's Start/Stop/status interface and is not modelled.)
SyncUI ==
  /\ variant = "push"
  /\ status_var' = status
  /\ lastOp' = "step"
  /\ UNCHANGED sideVars
  /\ UNCHANGED <<variant, now, files, pushVars, pullVars>>

\* ---- the worker thread: work() and _set_up_capture(), statement by statement
WorkStep(s, from) ==
  variant = "push" /\ work[s] = from /\ lastOp' = "step" /\ pts' = pts /\ UNCHANGED sideVars

\* test.py:133-210: display discovery (raises on an error or when there is no
\* display), url from the clock, self._writer = AVAssetWriter(url); on an error the
\* writer returned is nil and the worker raises.
CreateWriter(s) ==
  /\ WorkStep(s, "writer")
  /\ \E found, ok \in BOOLEAN :
       IF ~found
       THEN /\ UNCHANGED <<url, writer_, writers>>
            /\ work' = [work EXCEPT ![s] = "cb_err"]
       ELSE /\ url' = [url EXCEPT ![s] = now]
            /\ IF ok
               THEN /\ writer_' = s
                    /\ writers' = [writers EXCEPT ![s] = [st |-> "created", url |-> now,
                                     began |-> FALSE, marked |-> FALSE, frames |-> 0,
                                     t0 |-> NoTime, app |-> {}]]
                    /\ work' = [work EXCEPT ![s] = "input"]
               ELSE /\ writer_' = None
                    /\ UNCHANGED writers
                    /\ work' = [work EXCEPT ![s] = "cb_err"]
  /\ UNCHANGED <<variant, now, files, gui, pullVars, status, isRecording, sessionBegan,
                 stream_, videoInput_, adaptor_, streams, inputOf, stopPc, stopStream, stopW>>

\* test.py:223-231: self._videoInput = new input; it is added to self._writer.
\* A writer takes an input only before startWriting.
AddInput(s) ==
  /\ WorkStep(s, "input")
  /\ videoInput_' = s
  /\ \E ok \in BOOLEAN :
       IF ok /\ writer_ # None /\ writers[writer_].st = "created"
       THEN /\ inputOf' = [inputOf EXCEPT ![s] = writer_]
            /\ work' = [work EXCEPT ![s] = "startWriting"]
       ELSE /\ UNCHANGED inputOf
            /\ work' = [work EXCEPT ![s] = "cb_err"]
  /\ UNCHANGED <<variant, now, files, gui, pullVars, status, isRecording, sessionBegan,
                 stream_, writer_, adaptor_, url, streams, writers, stopPc, stopStream, stopW>>

\* test.py:233-243: self._adaptor wraps self._videoInput; self._writer.startWriting()
\* creates the output file; it fails on a writer that is not new or whose file exists.
StartWriting(s) ==
  /\ WorkStep(s, "startWriting")
  /\ adaptor_' = videoInput_
  /\ \E ok \in BOOLEAN :
       IF writer_ # None /\ writers[writer_].st = "created"
       THEN IF ok /\ writers[writer_].url \notin files
            THEN /\ writers' = [writers EXCEPT ![writer_].st = "writing"]
                 /\ files' = files \cup {writers[writer_].url}
                 /\ work' = [work EXCEPT ![s] = "stream"]
            ELSE /\ writers' = [writers EXCEPT ![writer_].st = "failed"]
                 /\ UNCHANGED files
                 /\ work' = [work EXCEPT ![s] = "cb_err"]
       ELSE /\ UNCHANGED <<writers, files>>
            /\ work' = [work EXCEPT ![s] = "cb_err"]
  /\ UNCHANGED <<variant, now, gui, pullVars, status, isRecording, sessionBegan,
                 stream_, writer_, videoInput_, url, streams, inputOf, stopPc, stopStream, stopW>>

\* test.py:246-251: self._stream = SCStream(filter, cfg, self); addStreamOutput
CreateStream(s) ==
  /\ WorkStep(s, "stream")
  /\ stream_' = s
  /\ streams' = [streams EXCEPT ![s] = "created"]
  /\ work' = [work EXCEPT ![s] = "startCapture"]
  /\ UNCHANGED <<variant, now, files, gui, pullVars, status, isRecording, sessionBegan,
                 writer_, videoInput_, adaptor_, url, writers, inputOf, stopPc, stopStream, stopW>>

\* A start request to stream st: a stream that is not running starts or reports an
\* error; a running stream keeps running whatever the request reports.
StartRequest(st, ok) ==
  IF ok /\ streams[st] # "running" THEN [streams EXCEPT ![st] = "running"] ELSE streams

\* test.py:253-273: the start of self._stream (synchronous or with a completion
\* handler the worker waits for); raises when the request fails.
StartCapture(s) ==
  /\ WorkStep(s, "startCapture")
  /\ \E ok \in BOOLEAN :
       /\ streams' = StartRequest(stream_, ok)
       /\ work' = [work EXCEPT ![s] = IF ok THEN "startAgain" ELSE "cb_err"]
  /\ UNCHANGED <<variant, now, files, gui, pullVars, status, isRecording, sessionBegan,
                 stream_, writer_, videoInput_, adaptor_, url, writers, inputOf,
                 stopPc, stopStream, stopW>>

\* test.py:275-279: startCaptureAndReturnError_ once more, on both platform branches;
\* raises when the call fails (or when the selector does not exist).
StartCaptureAgain(s) ==
  /\ WorkStep(s, "startAgain")
  /\ \E ok \in BOOLEAN :
       /\ streams' = StartRequest(stream_, ok)
       /\ work' = [work EXCEPT ![s] = IF ok THEN "setStatus" ELSE "cb_err"]
  /\ UNCHANGED <<variant, now, files, gui, pullVars, status, isRecording, sessionBegan,
                 stream_, writer_, videoInput_, adaptor_, url, writers, inputOf,
                 stopPc, stopStream, stopW>>

\* test.py:281: self.status = "Recording -> <url.name>"
SetStatus(s) ==
  /\ WorkStep(s, "setStatus")
  /\ status' = St("Recording", url[s])
  /\ work' = [work EXCEPT ![s] = "setFlag"]
  /\ UNCHANGED <<variant, now, files, gui, pullVars, isRecording, sessionBegan,
                 stream_, writer_, videoInput_, adaptor_, url, streams, writers, inputOf,
                 stopPc, stopStream, stopW>>

\* test.py:83-84: self.isRecording = True; callback(None)  (done(None) does nothing)
SetRecording(s) ==
  /\ WorkStep(s, "setFlag")
  /\ isRecording' = TRUE
  /\ work' = [work EXCEPT ![s] = "done"]
  /\ UNCHANGED <<variant, now, files, gui, pullVars, status, sessionBegan,
                 stream_, writer_, videoInput_, adaptor_, url, streams, writers, inputOf,
                 stopPc, stopStream, stopW>>

\* test.py:85-86 and 345-348: callback(exc) runs done(err) in the worker thread,
\* which sets the Tk variable to "Failed: <err>".
CallbackErr(s) ==
  /\ WorkStep(s, "cb_err")
  /\ status_var' = St("Failed", NoName)
  /\ work' = [work EXCEPT ![s] = "failed"]
  /\ UNCHANGED <<variant, now, files, pullVars, status, isRecording,
                 sessionBegan, stream_, writer_, videoInput_, adaptor_, url, streams,
                 writers, inputOf, stopPc, stopStream, stopW>>

\* ---- platform callbacks of the push recorder
PlatStep == variant = "push" /\ lastOp' = "step" /\ pts' = pts /\ UNCHANGED sideVars

\* The writer an appended frame goes to: the writer of the input self._adaptor wraps.
AppendTarget == IF adaptor_ = None THEN None ELSE inputOf[adaptor_]

\* A frame handler that appends without testing the pixel buffer and the input.
AppendsUntested(ready, tg, ws) == tg # None /\ ws[tg].st = "writing" /\ ws[tg].began

\* test.py:116-117: the frame is appended when it has a pixel buffer and the input is
\* ready (`ready`), to the writer tg of the input the adaptor wraps; the append takes
\* effect only in a writer that is writing and whose session has been started.
Appends(ready, tg, ws) == ready /\ tg # None /\ ws[tg].st = "writing" /\ ws[tg].began

\* test.py:107-121: stream_didOutputSampleBuffer_ofOutputType_ for a screen frame of a
\* running stream.  A frame that does not pass the guard (line 108) is returned at once.
\* Otherwise its time stamp is read; startSessionAtSourceTime_ raises on a writer that
\* is not writing, and the handler ends there; ready is
\* `pixbuf and isReadyForMoreMediaData()`.  lastOp tells what became of the frame.
DeliverFrame(st) ==
  /\ variant = "push"
  /\ streams[st] = "running"
  /\ IF ~isRecording
     THEN /\ lastOp' = "step"
          /\ UNCHANGED <<sessionBegan, writers, pts>>
     ELSE /\ pts < MaxPts
          /\ pts' = pts + 1
          /\ IF ~sessionBegan /\ (writer_ = None \/ writers[writer_].st # "writing")
             THEN /\ lastOp' = "step"
                  /\ UNCHANGED <<sessionBegan, writers>>
             ELSE \E ready \in BOOLEAN :
                    LET w1 == IF sessionBegan THEN writers
                              ELSE [writers EXCEPT ![writer_].began = TRUE,
                                                   ![writer_].t0 = pts]
                        tg == AppendTarget
                        app == Appends(ready, tg, w1)
                    IN /\ app => w1[tg].frames < MaxFrames
                       /\ sessionBegan' = TRUE
                       /\ writers' = IF app
                                      THEN [w1 EXCEPT ![tg].frames = @ + 1,
                                                      ![tg].app = @ \cup {pts}]
                                      ELSE w1
                       /\ lastOp' = IF ready THEN "FrameReady" ELSE "FrameDropped"
  /\ UNCHANGED sideVars
  /\ UNCHANGED <<variant, now, files, gui, pullVars, status, isRecording,
                 stream_, writer_, videoInput_, adaptor_, work, url, streams, inputOf,
                 stopPc, stopStream, stopW>>

\* test.py:123-125: stream_didStopWithError_: the platform ended the stream on its own
\* and reports the error; the handler prints it.
StreamDidStopWithError(st) ==
  /\ PlatStep
  /\ streams[st] = "running"
  /\ streams' = [streams EXCEPT ![st] = "failed"]
  /\ UNCHANGED <<variant, now, files, gui, pullVars, status, isRecording, sessionBegan,
                 stream_, writer_, videoInput_, adaptor_, work, url, writers, inputOf,
                 stopPc, stopStream, stopW>>

\* test.py:102, 96-97: the stream has stopped (an error of the stop is ignored: `_err`)
\* and the completion handler runs finish(), whose first statement marks
\* self._videoInput as finished.  On an input whose writer is not writing the call
\* raises or does nothing, as the platform decides; a raise ends the chain.
StopCompleted(k) ==
  /\ PlatStep
  /\ stopPc[k] = "stopCapture"
  /\ streams' = [streams EXCEPT ![stopStream[k]] =
                                    IF @ = "failed" THEN "failed" ELSE "stopped"]
  /\ LET w == inputOf[videoInput_]
     IN IF w # None /\ writers[w].st = "writing"
        THEN /\ writers' = [writers EXCEPT ![w].marked = TRUE]
             /\ stopPc' = [stopPc EXCEPT ![k] = "marked"]
        ELSE /\ UNCHANGED writers
             /\ \E raises \in BOOLEAN :
                  stopPc' = [stopPc EXCEPT ![k] = IF raises THEN "aborted" ELSE "marked"]
  /\ UNCHANGED <<variant, now, files, gui, pullVars, status, isRecording, sessionBegan,
                 stream_, writer_, videoInput_, adaptor_, work, url, inputOf,
                 stopStream, stopW>>

\* test.py:98-100: self._writer.finishWritingWithCompletionHandler_(...): a writing
\* writer starts to finalize; on another writer the call raises or only schedules the
\* handler, as the platform decides; on None it raises.
FinishWriting(k) ==
  /\ PlatStep
  /\ stopPc[k] = "marked"
  /\ IF writer_ # None /\ writers[writer_].st = "writing"
     THEN /\ writers' = [writers EXCEPT ![writer_].st = "finishing"]
          /\ stopW' = [stopW EXCEPT ![k] = writer_]
          /\ stopPc' = [stopPc EXCEPT ![k] = "finalizing"]
     ELSE /\ UNCHANGED writers
          /\ \E raises \in BOOLEAN :
               IF raises \/ writer_ = None
               THEN /\ stopPc' = [stopPc EXCEPT ![k] = "aborted"]
                    /\ UNCHANGED stopW
               ELSE /\ stopPc' = [stopPc EXCEPT ![k] = "finalizing"]
                    /\ stopW' = [stopW EXCEPT ![k] = writer_]
  /\ UNCHANGED <<variant, now, files, gui, pullVars, status, isRecording, sessionBegan,
                 stream_, writer_, videoInput_, adaptor_, work, url, streams, inputOf,
                 stopStream>>

\* The platform ends the finalization of the writer (completed, or failed with
\* writer.error set) and calls the completion handler, which runs _on_done.
Finalized(k) ==
  /\ PlatStep
  /\ stopPc[k] = "finalizing"
  /\ IF writers[stopW[k]].st = "finishing"
     THEN \E ok \in BOOLEAN :
            writers' = [writers EXCEPT ![stopW[k]].st = IF ok THEN "completed" ELSE "failed"]
     ELSE UNCHANGED writers
  /\ stopPc' = [stopPc EXCEPT ![k] = "od_status"]
  /\ UNCHANGED <<variant, now, files, gui, pullVars, status, isRecording, sessionBegan,
                 stream_, writer_, videoInput_, adaptor_, work, url, streams, inputOf,
                 stopStream, stopW>>

\* test.py:286: self.status = "Saved in Movies folder"
OnDoneStatus(k) ==
  /\ PlatStep
  /\ stopPc[k] = "od_status"
  /\ status' = St("Saved", NoName)
  /\ stopPc' = [stopPc EXCEPT ![k] = "od_flag"]
  /\ UNCHANGED <<variant, now, files, gui, pullVars, isRecording, sessionBegan,
                 stream_, writer_, videoInput_, adaptor_, work, url, streams, writers,
                 inputOf, stopStream, stopW>>

\* test.py:287-290: self.isRecording = False; self._sessionBegan = False; cb(None)
OnDoneFlag(k) ==
  /\ PlatStep
  /\ stopPc[k] = "od_flag"
  /\ isRecording' = FALSE
  /\ sessionBegan' = FALSE
  /\ stopPc' = [stopPc EXCEPT ![k] = "done"]
  /\ UNCHANGED <<variant, now, files, gui, pullVars, status,
                 stream_, writer_, videoInput_, adaptor_, work, url, streams, writers,
                 inputOf, stopStream, stopW>>

NextPush ==
  \/ StartPush
  \/ StopPush
  \/ SyncUI
  \/ \E s \in Sessions :
       \/ CreateWriter(s) \/ AddInput(s) \/ StartWriting(s)
       \/ CreateStream(s) \/ StartCapture(s) \/ StartCaptureAgain(s)
       \/ SetStatus(s) \/ SetRecording(s) \/ CallbackErr(s)
       \/ DeliverFrame(s) \/ StreamDidStopWithError(s)
  \/ \E k \in StopIds :
       \/ StopCompleted(k) \/ FinishWriting(k) \/ Finalized(k)
       \/ OnDoneStatus(k) \/ OnDoneFlag(k)

\* ================================================================== pull
\* test2.py:95: the guard of start_recording_thread_safe
StartGuardPull == is_recording

\* test2.py:93-104: start_recording_thread_safe on the main thread
StartPull ==
  /\ variant = "pull"
  /\ IF StartGuardPull
     THEN /\ lastOp' = "StartNoop"
          /\ UNCHANGED <<is_recording, rec, gui>>
     ELSE /\ FreeSlot(rec) # None
          /\ is_recording' = TRUE
          /\ status_var' = St("Initializing", NoName)
          /\ rec' = [rec EXCEPT ![FreeSlot(rec)] = "path"]
          /\ lastOp' = "Start"
  /\ UNCHANGED sideVars
  /\ UNCHANGED <<variant, now, files, pushVars, video_writer, sct, filepath, loc,
                 vwriters, afterQ>>

\* A stop_recording_thread_safe without its guard.
StopGuardPullMissing == FALSE

\* test2.py:204: the guard of stop_recording_thread_safe
StopGuardPull == ~is_recording

\* test2.py:202-213: stop_recording_thread_safe on the main thread
StopPull ==
  /\ variant = "pull"
  /\ IF StopGuardPull
     THEN /\ lastOp' = "StopNoop"
          /\ UNCHANGED <<is_recording, status_var>>
     ELSE /\ status_var' = St("Stopping", NoName)
          /\ is_recording' = FALSE
          /\ lastOp' = "Stop"
  /\ UNCHANGED sideVars
  /\ UNCHANGED <<variant, now, files, pushVars, video_writer, sct, filepath,
                 rec, loc, vwriters, afterQ>>

\* The Tk main loop runs the oldest callback posted with root.after(0, ...): a
\* status_var.set(...) posted at test2.py:142, 167 or 198.
RunAfter ==
  /\ variant = "pull"
  /\ afterQ # <<>>
  /\ status_var' = Head(afterQ)
  /\ afterQ' = Tail(afterQ)
  /\ lastOp' = "step"
  /\ UNCHANGED sideVars
  /\ UNCHANGED <<variant, now, files, pushVars, is_recording, video_writer, sct,
                 filepath, rec, loc, vwriters>>

\* ---- _record_worker, statement by statement
RecStep(s, from) ==
  variant = "pull" /\ rec[s] = from /\ lastOp' = "step" /\ UNCHANGED sideVars

\* test2.py:110-118: _get_screen_dimensions() and mkdir (either may raise), the file
\* name from the clock, self.filepath
MakePath(s) ==
  /\ RecStep(s, "path")
  /\ \E ok \in BOOLEAN :
       IF ok
       THEN /\ loc' = [loc EXCEPT ![s].filename = now]
            /\ filepath' = now
            /\ rec' = [rec EXCEPT ![s] = "open"]
       ELSE /\ UNCHANGED <<loc, filepath>>
            /\ rec' = [rec EXCEPT ![s] = "except"]
  /\ UNCHANGED <<variant, now, files, gui, pushVars, is_recording, video_writer, sct,
                 vwriters, afterQ>>

\* A cv2.VideoWriter that loses its last reference is released by its destructor.
Dropped(ws, old) ==
  IF old # None /\ ws[old].st = "open" THEN [ws EXCEPT ![old].st = "dropped"] ELSE ws

\* test2.py:123-138: self.video_writer = cv2.VideoWriter(str(self.filepath), ...);
\* an opened writer has created its file; raises when it is not opened.
OpenWriter(s) ==
  /\ RecStep(s, "open")
  /\ video_writer' = s
  /\ \E ok \in BOOLEAN :
       IF ok
       THEN /\ vwriters' = [Dropped(vwriters, video_writer) EXCEPT
                              ![s] = [st |-> "open", path |-> filepath, frames |-> 0]]
            /\ files' = files \cup {filepath}
            /\ loc' = [loc EXCEPT ![s].init = TRUE]
            /\ rec' = [rec EXCEPT ![s] = "sct"]
       ELSE /\ vwriters' = [Dropped(vwriters, video_writer) EXCEPT
                              ![s] = [st |-> "unopened", path |-> filepath, frames |-> 0]]
            /\ UNCHANGED <<files, loc>>
            /\ rec' = [rec EXCEPT ![s] = "except"]
  /\ UNCHANGED <<variant, now, gui, pushVars, is_recording, sct, filepath, afterQ>>

\* test2.py:140-142: self.sct = mss.mss() (may raise), then
\* root.after(0, status_var.set("Recording -> <filename>"))
OpenSct(s) ==
  /\ RecStep(s, "sct")
  /\ \E ok \in BOOLEAN :
       IF ok
       THEN /\ sct' = s
            /\ afterQ' = Append(afterQ, St("Recording", loc[s].filename))
            /\ rec' = [rec EXCEPT ![s] = "loop"]
       ELSE /\ UNCHANGED <<sct, afterQ>>
            /\ rec' = [rec EXCEPT ![s] = "except"]
  /\ UNCHANGED <<variant, now, files, gui, pushVars, is_recording, video_writer,
                 filepath, loc, vwriters>>

\* test2.py:145: while self.is_recording
LoopTest(s) ==
  /\ RecStep(s, "loop")
  /\ rec' = [rec EXCEPT ![s] = IF is_recording THEN "grab" ELSE "fin_sct"]
  /\ UNCHANGED <<variant, now, files, gui, pushVars, is_recording, video_writer, sct,
                 filepath, loc, vwriters, afterQ>>

\* test2.py:148-152: self.sct.grab(...) and the conversions; raises when the grab
\* fails or self.sct is None
Grab(s) ==
  /\ RecStep(s, "grab")
  /\ \E ok \in BOOLEAN :
       rec' = [rec EXCEPT ![s] = IF ok /\ sct # None THEN "write" ELSE "except_loop"]
  /\ UNCHANGED <<variant, now, files, gui, pushVars, is_recording, video_writer, sct,
                 filepath, loc, vwriters, afterQ>>

\* test2.py:154-160: self.video_writer.write(frame), then the pacing sleep; raises
\* when the write fails or self.video_writer is None.  A released writer ignores
\* the frame.  The frame count saturates at MaxFrames.
WriteFrame(s) ==
  /\ RecStep(s, "write")
  /\ \E ok \in BOOLEAN :
       IF ok /\ video_writer # None
       THEN /\ vwriters' = IF vwriters[video_writer].st = "open"
                              /\ vwriters[video_writer].frames < MaxFrames
                           THEN [vwriters EXCEPT ![video_writer].frames = @ + 1]
                           ELSE vwriters
            /\ rec' = [rec EXCEPT ![s] = "loop"]
       ELSE /\ UNCHANGED vwriters
            /\ rec' = [rec EXCEPT ![s] = "except_loop"]
  /\ UNCHANGED <<variant, now, files, gui, pushVars, is_recording, video_writer, sct,
                 filepath, loc, afterQ>>

\* test2.py:164-167: except: root.after(0, status_var.set("Failed: <e>")), for an
\* exception of the setup ("except") or of the capture loop ("except_loop")
Except(s) ==
  /\ variant = "pull" /\ rec[s] \in {"except", "except_loop"} /\ lastOp' = "step"
  /\ loc' = [loc EXCEPT ![s].err = IF rec[s] = "except" THEN "setup" ELSE "capture"]
  /\ afterQ' = Append(afterQ, St("Failed", NoName))
  /\ rec' = [rec EXCEPT ![s] = "fin_sct"]
  /\ UNCHANGED sideVars
  /\ UNCHANGED <<variant, now, files, gui, pushVars, is_recording, video_writer, sct,
                 filepath, vwriters>>

\* test2.py:170-171: if self.sct: self.sct = None
FinSct(s) ==
  /\ RecStep(s, "fin_sct")
  /\ sct' = None
  /\ rec' = [rec EXCEPT ![s] = "fin_writer"]
  /\ UNCHANGED <<variant, now, files, gui, pushVars, is_recording, video_writer,
                 filepath, loc, vwriters, afterQ>>

\* test2.py:173-175: if self.video_writer: release(); self.video_writer = None
FinWriter(s) ==
  /\ RecStep(s, "fin_writer")
  /\ vwriters' = IF video_writer # None /\ vwriters[video_writer].st = "open"
                 THEN [vwriters EXCEPT ![video_writer].st = "released"]
                 ELSE vwriters
  /\ video_writer' = None
  /\ rec' = [rec EXCEPT ![s] = "fin_post"]
  /\ UNCHANGED <<variant, now, files, gui, pushVars, is_recording, sct,
                 filepath, loc, afterQ>>

\* A final_status_msg that lacks the branch for the saved file.
FinalStatusNoSaved(cur, init, path, onDisk) ==
  IF Kind(cur) = "Failed" THEN cur
  ELSE IF ~init THEN St("StoppedEarly", NoName)
  ELSE St("Stopped", NoName)

\* test2.py:178-196: final_status_msg, from status_var.get(), the worker's
\* video_writer_initialized_successfully and Path(self.filepath).exists()
FinalStatus(cur, init, path, onDisk) ==
  IF Kind(cur) = "Failed" THEN cur
  ELSE IF init /\ path # NoName /\ path \in onDisk THEN St("Saved", path)
  ELSE IF ~init THEN St("StoppedEarly", NoName)
  ELSE St("Stopped", NoName)

\* test2.py:178-199: the final status is computed and posted with
\* root.after(0, status_var.set(final)); the second callback posted,
\* _update_ui_for_recording_stop, only restyles the buttons.
FinPost(s) ==
  /\ RecStep(s, "fin_post")
  /\ afterQ' = Append(afterQ, FinalStatus(status_var, loc[s].init, filepath, files))
  /\ rec' = [rec EXCEPT ![s] = "fin_flag"]
  /\ UNCHANGED <<variant, now, files, gui, pushVars, is_recording, video_writer, sct,
                 filepath, loc, vwriters>>

\* test2.py:200: self.is_recording = False
FinFlag(s) ==
  /\ RecStep(s, "fin_flag")
  /\ is_recording' = FALSE
  /\ rec' = [rec EXCEPT ![s] = "done"]
  /\ UNCHANGED <<variant, now, files, gui, pushVars, video_writer, sct,
                 filepath, loc, vwriters, afterQ>>

NextPull ==
  \/ StartPull
  \/ StopPull
  \/ RunAfter
  \/ \E s \in Sessions :
       \/ MakePath(s) \/ OpenWriter(s) \/ OpenSct(s)
       \/ LoopTest(s) \/ Grab(s) \/ WriteFrame(s) \/ Except(s)
       \/ FinSct(s) \/ FinWriter(s) \/ FinPost(s) \/ FinFlag(s)

Next == Tick \/ NextPush \/ NextPull
Spec == Init /\ [][Next]_vars

\* ================================================================== content filter
\* The filter selection of _set_up_capture (test.py:133-185) as a computation of its
\* own: what the display shows is the set of running applications, the platform
\* offers one of three initialisers, and the filter built decides which applications
\* are in the frames of the stream.
recorderVars == <<variant, now, files, lastOp, gui, pushVars, pullVars>>

\* test.py:165
Excluded == {"com.apple.MobileSMS", "com.apple.iChat"}
\* the applications that may be running
Apps == Excluded \cup {"com.apple.Safari", "com.apple.finder", "com.apple.Terminal"}
\* test.py:173, 178, 183: the initialiser found by hasattr: includingApplications,
\* includingWindows, or neither (the fallback)
Selectors == {"applications", "windows", "fallback"}

\* test.py:166-170: the applications whose bundle identifier is not excluded
Included(apps) == {a \in apps : a \notin Excluded}

\* test.py:172-185: the applications the filter lets through: the including
\* initialisers take the list `included`; initWithDisplay_excludingWindows_(display,
\* None) captures the whole display.
FilterFor(sel, apps) ==
  CASE sel = "applications" -> Included(apps)
    [] sel = "windows" -> Included(apps)
    [] OTHER -> apps

\* test.py:137-163: the shareable content has arrived (a display was found)
Discover ==
  /\ fpc = "off"
  /\ running' \in SUBSET Apps
  /\ selector' \in Selectors
  /\ fpc' = "discovered"
  /\ UNCHANGED <<filterApps, recorderVars, paceVars, veilVars>>

\* test.py:164-185: filter_ is built
BuildFilter ==
  /\ fpc = "discovered"
  /\ filterApps' = FilterFor(selector, running)
  /\ fpc' = "built"
  /\ UNCHANGED <<running, selector, recorderVars, paceVars, veilVars>>

FilterInit == variant = "push" /\ InitRecorder /\ FilterOff /\ PaceOff /\ VeilOff
FilterNext == Discover \/ BuildFilter
FilterSpec == FilterInit /\ [][FilterNext]_vars

\* ================================================================== frame pacing
\* The frame rate control of the capture loop (test2.py:145-160) as a computation of
\* its own, for a loop whose flag stays set: each iteration grabs and writes one frame,
\* which takes some time, and then sleeps for the rest of the frame interval.
\* test2.py:27: self.fps = 20.0
Fps == 20
\* 1.0 / self.fps, in milliseconds
FrameInterval == 1000 \div Fps

\* test2.py:158: sleep_time = (1.0 / self.fps) - elapsed_time
SleepTime(e) == FrameInterval - e

\* A pacing without the test of line 159.
SleptUnclamped(e) == SleepTime(e)

\* test2.py:159-160: if sleep_time > 0: time.sleep(sleep_time)
Slept(e) == IF SleepTime(e) > 0 THEN SleepTime(e) ELSE 0

\* test2.py:146-157: start_frame_time, grab, convert, write, elapsed_time
Capture ==
  /\ ppc = "top" /\ laps < MaxLaps
  /\ elapsed' \in 0..MaxElapsed
  /\ captures' = captures + 1
  /\ ppc' = "pace"
  /\ UNCHANGED <<slept, laps, recorderVars, filterVars, veilVars>>

\* test2.py:158-160, then back to the loop test of line 145
Pace ==
  /\ ppc = "pace"
  /\ slept' = Slept(elapsed)
  /\ laps' = laps + 1
  /\ ppc' = "top"
  /\ UNCHANGED <<elapsed, captures, recorderVars, filterVars, veilVars>>

PaceInit ==
  /\ variant = "pull" /\ InitRecorder /\ FilterOff /\ VeilOff
  /\ elapsed = 0 /\ slept = 0 /\ captures = 0 /\ laps = 0 /\ ppc = "top"
PaceNext == Capture \/ Pace
PaceSpec == PaceInit /\ [][PaceNext]_vars

\* ================================================================== overlay program
\* src/main.py: the main loop polls the on-screen windows of the blacklisted
\* applications and keeps one overlay window over each.  The steps of the loop are
\* its statements; the windows on screen change at any time.
WinIds == 1..MaxWindows
\* the owners a window may have, and main.py:54, BLACKLIST (read from the
\* configuration): the owner names to hide
Owners == {"Messages", "Safari"}
BLACKLIST == {"Messages"}
\* kCGWindowBounds, top-left origin: the top edge and the height (X and Width pass
\* through cg_to_ns_rect unchanged and are left out)
Rects == [Y : 0..MaxY, Height : 1..MaxHeight]
\* what CGWindowListCopyWindowInfo may return
Screens == UNION {[S -> [owner : Owners, bounds : Rects]] : S \in SUBSET WinIds}

\* main.py:62-69: cg_to_ns_rect: the NSRect (bottom-left origin) of a CoreGraphics rect
cg_to_ns_rect(b) == [y |-> ScreenHeight - b.Y - b.Height, h |-> b.Height]

\* the CoreGraphics rect an NSWindow with frame f covers on the main screen
Covers(f) == [Y |-> ScreenHeight - f.y - f.h, Height |-> f.h]

\* main.py:89-95: blacklisted_windows, as the dict main makes of it
blacklisted_windows ==
  [w \in {v \in DOMAIN screen : screen[v].owner \in BLACKLIST} |-> screen[w].bounds]

\* a dict without the key w
Without(d, w) == [v \in DOMAIN d \ {w} |-> d[v]]
\* a dict with the entry w: x added
With(d, w, x) == [v \in DOMAIN d \cup {w} |-> IF v = w THEN x ELSE d[v]]

\* the NSWindow object an allocation returns: one that does not exist yet
FreshOverlay ==
  CHOOSE o \in OverlayIds :
    overlays[o].st = "none" /\ \A q \in OverlayIds : overlays[q].st = "none" => o <= q

\* a window appears, vanishes, moves, resizes or changes hands
ScreenChange ==
  /\ vpc \in {"poll", "sync", "front", "remove"}
  /\ \E w \in WinIds :
       \/ w \in DOMAIN screen /\ screen' = Without(screen, w)
       \/ \E i \in [owner : Owners, bounds : Rects] :
            screen' = With(screen, w, i) /\ screen' # screen
  /\ UNCHANGED <<current, veil_windows, overlays, win_id, todo, vpc>>
  /\ UNCHANGED <<recorderVars, filterVars, paceVars>>

\* main.py:168: current = dict(blacklisted_windows()), and the for loop of line 171
\* begins
Poll ==
  /\ vpc = "poll"
  /\ current' = blacklisted_windows
  /\ todo' = DOMAIN blacklisted_windows
  /\ vpc' = "sync"
  /\ UNCHANGED <<screen, veil_windows, overlays, win_id>>
  /\ UNCHANGED <<recorderVars, filterVars, paceVars>>

\* main.py:172-174 and 107-125: the window has no overlay: VeilWindow.create_(bounds)
\* returns a new window framed to the bounds, or None when the initialiser fails;
\* the result is stored in the table.
CreateOverlay(w) ==
  /\ vpc = "sync" /\ w \in todo /\ w \notin DOMAIN veil_windows
  /\ \E ok \in BOOLEAN :
       IF ok
       THEN /\ overlays' = [overlays EXCEPT ![FreshOverlay] =
                              [st |-> "hidden", frame |-> cg_to_ns_rect(current[w])]]
            /\ veil_windows' = With(veil_windows, w, FreshOverlay)
       ELSE /\ UNCHANGED overlays
            /\ veil_windows' = With(veil_windows, w, None)
  /\ win_id' = w
  /\ vpc' = "front"
  /\ UNCHANGED <<screen, current, todo>>
  /\ UNCHANGED <<recorderVars, filterVars, paceVars>>

\* main.py:175: vw.makeKeyAndOrderFront_(None); on None the call raises
\* AttributeError, which nothing catches: main ends.
OrderFront ==
  /\ vpc = "front"
  /\ IF veil_windows[win_id] = None
     THEN /\ vpc' = "crashed"
          /\ UNCHANGED <<overlays, todo, win_id>>
     ELSE /\ overlays' = [overlays EXCEPT ![veil_windows[win_id]].st = "shown"]
          /\ todo' = todo \ {win_id}
          /\ win_id' = None
          /\ vpc' = "sync"
  /\ UNCHANGED <<screen, current, veil_windows>>
  /\ UNCHANGED <<recorderVars, filterVars, paceVars>>

\* main.py:176-177 and 154-155: the window has an overlay: sync_frame(bounds)
SyncFrame(w) ==
  /\ vpc = "sync" /\ w \in todo /\ w \in DOMAIN veil_windows
  /\ overlays' = [overlays EXCEPT ![veil_windows[w]].frame = cg_to_ns_rect(current[w])]
  /\ todo' = todo \ {w}
  /\ UNCHANGED <<screen, current, veil_windows, win_id, vpc>>
  /\ UNCHANGED <<recorderVars, filterVars, paceVars>>

\* main.py:180: the first for loop is over; set(veil_windows) - set(current)
Vanished ==
  /\ vpc = "sync" /\ todo = {}
  /\ todo' = DOMAIN veil_windows \ DOMAIN current
  /\ vpc' = "remove"
  /\ UNCHANGED <<screen, current, veil_windows, overlays, win_id>>
  /\ UNCHANGED <<recorderVars, filterVars, paceVars>>

\* main.py:181-182: orderOut_(None) hides the overlay; del drops the table's
\* reference, the last one, and the window object is gone
RemoveOverlay(w) ==
  /\ vpc = "remove" /\ w \in todo
  /\ overlays' = [overlays EXCEPT ![veil_windows[w]] = [st |-> "none", frame |-> NoFrame]]
  /\ veil_windows' = Without(veil_windows, w)
  /\ todo' = todo \ {w}
  /\ UNCHANGED <<screen, current, win_id, vpc>>
  /\ UNCHANGED <<recorderVars, filterVars, paceVars>>

\* main.py:185-187: the second for loop is over; the run loop runs for 10 ms and the
\* while loop starts over
RunLoop ==
  /\ vpc = "remove" /\ todo = {}
  /\ vpc' = "poll"
  /\ UNCHANGED <<screen, current, veil_windows, overlays, win_id, todo>>
  /\ UNCHANGED <<recorderVars, filterVars, paceVars>>

\* main.py:163-165: main is entered, veil_windows = {}
VeilInit ==
  /\ variant = "veil" /\ InitRecorder /\ FilterOff /\ PaceOff
  /\ screen \in Screens
  /\ current = NoEntries /\ veil_windows = NoEntries
  /\ overlays = [o \in OverlayIds |-> [st |-> "none", frame |-> NoFrame]]
  /\ win_id = None /\ todo = {} /\ vpc = "poll"
VeilNext ==
  \/ ScreenChange \/ Poll \/ OrderFront \/ Vanished \/ RunLoop
  \/ \E w \in WinIds : CreateOverlay(w) \/ SyncFrame(w) \/ RemoveOverlay(w)
VeilSpec == VeilInit /\ [][VeilNext]_vars

\* ================================================================== session states
\* push: worker s is inside work()/_set_up_capture (test.py:80-84)
InSetupPush(s) == work[s] \in {"writer", "input", "startWriting", "stream",
                               "startCapture", "startAgain", "setStatus", "setFlag"}
\* pull: worker s is inside the setup or the capture loop of _record_worker
\* (test2.py:110-160)
InSetupPull(s) == rec[s] \in {"path", "open", "sct"}
InLoopPull(s)  == rec[s] \in {"loop", "grab", "write"}
\* an output writer that is open: an AVAssetWriter between startWriting and the end
\* of finishWriting, a cv2.VideoWriter between its opening and its release
OpenWriterPush(s) == writers[s].st \in {"writing", "finishing"}
OpenWriterPull(s) == vwriters[s].st = "open"

SetupRunning == \E s \in Sessions : InSetupPush(s) \/ InSetupPull(s)
StartCall == StartPush \/ StartPull
StopCall  == StopPush \/ StopPull

\* The recorder's own encoding of "a session is Recording": the recording flag is
\* set and the Recording status has been published.
Recording ==
  \/ variant = "push" /\ isRecording /\ Kind(status) = "Recording"
  \/ variant = "pull" /\ is_recording /\ Kind(status_var) = "Recording"
                      /\ \E s \in Sessions : InLoopPull(s)

TerminalKinds == {"Saved", "Failed", "StoppedEarly", "Stopped"}

\* No session: nothing was started, or the last one has ended: its terminal status
\* is published and the recording flag is clear.
IdleOrTerminal ==
  \/ variant = "push" /\ ~isRecording
       /\ (Kind(status) \in {"Idle", "Saved"} \/ Kind(status_var) = "Failed")
  \/ variant = "pull" /\ ~is_recording
       /\ Kind(status_var) \in {"Idle"} \cup TerminalKinds

\* ================================================================== claims

\* C1: at most one session is non-terminal at any time: never two setups or capture
\* loops running at once and never two output writers open at once.
C1_AtMostOneLiveSession ==
  /\ Cardinality({s \in Sessions : InSetupPush(s) \/ InSetupPull(s) \/ InLoopPull(s)}) <= 1
  /\ Cardinality({s \in Sessions : OpenWriterPush(s) \/ OpenWriterPull(s)}) <= 1

\* C2: a Start called while an earlier Start's setup is still running is a no-op:
\* it spawns no second worker (so no second setup runs, no second file is created).
C2_SecondStartIsNoop ==
  [][(StartCall /\ SetupRunning) => UNCHANGED <<work, rec>>]_vars

\* C3: a Start called while a session is Recording changes nothing: flag, status,
\* writer, stream, worker threads and files stay as they are.
C3_StartWhileRecordingIsNoop ==
  [][(StartCall /\ Recording) =>
       UNCHANGED <<variant, now, files, gui, pushVars, pullVars>>]_vars

\* C3 witness: a Start has just returned as a no-op in a Recording pull session
\* that holds a frame.
C3_Witness ==
  /\ lastOp = "StartNoop" /\ Recording /\ variant = "pull"
  /\ \E s \in Sessions : InLoopPull(s) /\ vwriters[s].st = "open" /\ vwriters[s].frames > 0

\* C4: a Stop called when no session is live (Idle, or the last session has reached
\* its terminal status) changes nothing and publishes no status.
C4_StopWhenIdleIsNoop ==
  [][(StopCall /\ IdleOrTerminal) =>
       UNCHANGED <<variant, now, files, gui, pushVars, pullVars>>]_vars

\* C4 witness: a Stop has just returned as a no-op after a session that was saved.
C4_Witness ==
  /\ lastOp = "StopNoop" /\ IdleOrTerminal
  /\ Kind(status) = "Saved" \/ Kind(status_var) = "Saved"

\* ---- helpers of the claims about how a session ends
Started(s) == work[s] # "none" \/ rec[s] # "none"
\* s is the session of the latest Start
LastSession(s) == Started(s) /\ \A r \in Sessions : r > s => ~Started(r)
\* the setup of session s raised (push: work() reached its except clause and has
\* called back; pull: the exception came from the setup part of _record_worker)
SetupFailed(s) == work[s] = "failed" \/ loc[s].err = "setup"
\* a shutdown chain that has run _on_done's `self.status = "Saved ..."`
SavedBy(k) == stopPc[k] \in {"od_flag", "done"}

\* C5: the Saved status of a session is not observable before that session's writer
\* has completed its finalization (push: finishWriting's completion for the writer of
\* the session whose stream the Stop stopped; pull: no worker posts its final status
\* while the writer it opened is still open).
C5_SavedOnlyAfterFinalize ==
  /\ \A k \in StopIds :
       (variant = "push" /\ Kind(status) = "Saved" /\ SavedBy(k))
         => writers[stopStream[k]].st \in {"completed", "failed"}
  /\ \A s \in Sessions :
       (variant = "pull" /\ rec[s] \in {"fin_flag", "done"}) => ~OpenWriterPull(s)

\* C6 (as a final result): when the shutdown that a Stop began has ended, it has run
\* to its end for the session it stopped: the stream is stopped, the writer input is
\* marked finished, the writer is finalized and the recording flag is clear.
C6_StopRunsFullShutdown ==
  \A k \in StopIds :
    (variant = "push" /\ stopPc[k] \in {"done", "aborted"}) =>
       /\ stopPc[k] = "done"
       /\ streams[stopStream[k]] \in {"stopped", "failed"}
       /\ writers[stopStream[k]].marked
       /\ writers[stopStream[k]].st \in {"completed", "failed"}

\* C7: once the Failed status of a failed setup is shown for the latest session, no
\* status poll and no scheduled status update replaces it (only a new Start or Stop
\* call may).
C7_FailedSetupStaysFailed ==
  [][((\E s \in Sessions : LastSession(s) /\ SetupFailed(s))
        /\ Kind(status_var) = "Failed" /\ lastOp' = "step")
      => Kind(status_var') = "Failed"]_vars

\* C8: after a failed setup has ended, nothing it acquired is left: its writer is
\* not open, its stream is not running, and its output file, if it was created and
\* never recorded into, is gone.
C8_FailedSetupReleasesAll ==
  \A s \in Sessions :
    /\ work[s] = "failed" =>
         /\ ~OpenWriterPush(s)
         /\ streams[s] # "running"
         /\ (writers[s].st \notin {"none", "created"} /\ writers[s].frames = 0)
              => writers[s].url \notin files
    /\ (rec[s] = "done" /\ loc[s].err = "setup") =>
         /\ ~OpenWriterPull(s)
         /\ (vwriters[s].st \notin {"none", "unopened"} /\ vwriters[s].frames = 0)
              => vwriters[s].path \notin files

\* C9 (as a final result): after the capture source of the current session has failed
\* on its own, the session is not left Recording: push: once the delegate callback
\* has returned, the recording flag is clear or a shutdown is in progress; pull: once
\* the worker has ended and its status updates have run, the status is Failed.
C9_SourceFailureEndsSession ==
  \A s \in Sessions :
    /\ (variant = "push" /\ streams[s] = "failed" /\ stream_ = s /\ work[s] = "done")
         => (~isRecording \/ \E k \in StopIds : ~ChainOver(k))
    /\ (variant = "pull" /\ LastSession(s) /\ rec[s] = "done" /\ loc[s].err = "capture"
          /\ afterQ = <<>> /\ \A r \in Sessions : rec[r] \in {"none", "done"})
         => Kind(status_var) = "Failed"

\* C10: the status Saved is reached only when the finalization of the writer
\* succeeded; a failed finalization ends in Failed.
C10_SavedOnlyIfFinalizeSucceeded ==
  \A k \in StopIds :
    (variant = "push" /\ Kind(status) = "Saved" /\ SavedBy(k))
      => writers[stopW[k]].st = "completed"

\* ---- helpers of the claims about frames
\* the smallest time stamp of a non-empty set of time stamps
MinPts(S) == CHOOSE p \in S : \A q \in S : p <= q

\* C11: in every push session the session start time of the writer
\* (startSessionAtSourceTime_) is the presentation time stamp of the first frame that
\* was actually appended to that writer, also when an earlier frame was delivered but
\* not appended.
C11_SessionStartsAtFirstAppended ==
  \A w \in Sessions :
    (variant = "push" /\ writers[w].app # {}) => writers[w].t0 = MinPts(writers[w].app)

\* a shutdown chain of an accepted Stop is still running (push)
ShutdownInFlight == \E k \in StopIds : ~ChainOver(k)

\* C12: a Stop called while the shutdown of an earlier Stop is still in progress is a
\* no-op: it starts no second shutdown chain, so the source is not stopped again and
\* the writer is marked finished and finalized once only.
C12_SecondStopIsNoop ==
  [][(StopCall /\ ShutdownInFlight) => UNCHANGED <<stopPc, stopStream, stopW, streams, writers>>]_vars

\* ---- helpers of the claim about callbacks (push)
\* how often the callback of the s-th accepted start_ has been invoked: once the
\* worker has ended, by callback(None) (test.py:84) or callback(exc) (test.py:86)
StartCallbacks(s) == IF work[s] \in {"done", "failed"} THEN 1 ELSE 0
\* how often the callback of the accepted stop_ of chain k has been invoked: by
\* cb(None) at the end of _on_done (test.py:290), which an aborted chain never reaches
StopCallbacks(k) == IF stopPc[k] = "done" THEN 1 ELSE 0

\* C13 (as a final result): in the push recorder every accepted start_ whose worker
\* has ended and every accepted stop_ whose shutdown has ended has invoked its
\* callback exactly once.
C13_CallbackExactlyOnce ==
  variant = "push" =>
    /\ \A s \in Sessions : work[s] \in {"done", "failed"} => StartCallbacks(s) = 1
    /\ \A k \in StopIds : stopPc[k] \in {"done", "aborted"} => StopCallbacks(k) = 1

\* ---- helpers of the claim about the status sequence of a plain session
\* One Start was accepted, at most one Stop, and nothing has failed: no second worker,
\* no second shutdown chain, no exception in the worker, no failure reported by the
\* stream or by the writer.
PlainRun ==
  \/ /\ variant = "push"
     /\ work[2] = "none" /\ stopPc[2] = "none"
     /\ work[1] \notin {"cb_err", "failed"}
     /\ streams[1] # "failed" /\ writers[1].st # "failed" /\ stopPc[1] # "aborted"
  \/ /\ variant = "pull"
     /\ rec[2] = "none"
     /\ rec[1] \notin {"except", "except_loop"} /\ loc[1].err = "none"

\* the place of a status in Idle -> Recording -> Saved; the transient labels of the
\* pull recorder stand between them ("Stopping..." may be shown before the posted
\* Recording text is); the other statuses have no place
StatusRank(s) ==
  CASE Kind(s) = "Idle" -> 0
    [] Kind(s) = "Initializing" -> 1
    [] Kind(s) \in {"Recording", "Stopping"} -> 2
    [] Kind(s) = "Saved" -> 3
    [] OTHER -> -1

\* the statuses that exist in the state: the recorder's, the one shown, the ones posted
StatusesAround == {status, status_var} \cup {afterQ[i] : i \in DOMAIN afterQ}

\* the plain session has ended: _on_done has returned (push); the worker has ended and
\* its posted status updates have run (pull)
PlainRunOver ==
  \/ variant = "push" /\ stopPc[1] = "done"
  \/ variant = "pull" /\ rec[1] = "done" /\ afterQ = <<>>

\* C14: in a session with one Start, a successful setup, one Stop and a successful
\* finalization, the statuses go Idle, Recording, Saved: no Failed or stopped status
\* ever exists, the status (the recorder's and the one shown) never goes back in that
\* order, Saved is entered from Recording (or from the transient Stopping label) only,
\* and the status at the end is Saved.  (In the push recorder the text shown is a poll
\* of the recorder's status every 200 ms: it keeps the order and may miss a status.)
C14_PlainRunStatusSequence ==
  /\ [](PlainRun => \A s \in StatusesAround : StatusRank(s) >= 0)
  /\ [][PlainRun' =>
         /\ StatusRank(status') >= StatusRank(status)
         /\ StatusRank(status_var') >= StatusRank(status_var)
         /\ (Kind(status') = "Saved" /\ Kind(status) # "Saved") => Kind(status) = "Recording"
         /\ (variant = "pull" /\ Kind(status_var') = "Saved" /\ Kind(status_var) # "Saved")
              => Kind(status_var) \in {"Recording", "Stopping"}]_vars
  /\ [](PlainRun /\ PlainRunOver =>
         IF variant = "push" THEN Kind(status) = "Saved" ELSE Kind(status_var) = "Saved")

\* C14 witness: a plain push session has ended, holds a frame, and Saved is shown.
C14_Witness ==
  /\ variant = "push" /\ PlainRun /\ PlainRunOver
  /\ writers[1].frames > 0 /\ writers[1].st = "completed"
  /\ Kind(status_var) = "Saved"

\* C15: whichever initialiser the platform offers, the filter the stream is
\* configured with lets no excluded application into the frames.
C15_ExcludedNeverCaptured == fpc = "built" => filterApps \cap Excluded = {}

\* ---- helpers of the claim about the output path of a new session
\* the output path session s has taken (NoName before)
PathOf(s) == IF variant = "push" THEN url[s] ELSE loc[s].filename
\* session s has reached its terminal status: push: its setup failed, or it was
\* recorded and _on_done has run; pull: its worker has ended
SessionEnded(s) ==
  \/ variant = "push" /\ work[s] = "failed"
  \/ variant = "push" /\ work[s] = "done" /\ ~isRecording /\ Kind(status) = "Saved"
                      /\ ~ShutdownInFlight
  \/ variant = "pull" /\ rec[s] = "done"

\* C16: when a Start was accepted after an earlier session had reached its terminal
\* status, the path the new session takes next (the first step of its worker) differs
\* from the path of that earlier session, also within the same second of the clock.
C16_NewSessionNewPath ==
  [][\A s, r \in Sessions :
       (s # r /\ lastOp = "Start" /\ SessionEnded(s)
          /\ PathOf(r) = NoName /\ PathOf(r)' # NoName)
       => PathOf(r)' # PathOf(s)]_vars

\* C17: in the pull recorder at most one worker thread is inside the capture loop
\* (loop test, grab, write) at any time, so no two executions of the loop body overlap.
C17_OneWorkerInLoop ==
  variant = "pull" => Cardinality({s \in Sessions : InLoopPull(s)}) <= 1

\* C18: in the push recorder a frame that has no pixel buffer or meets an input that is
\* not ready is dropped: the step appends nothing and leaves status, recording flag,
\* streams, workers and shutdown chains as they are; no step ever appends a frame other
\* than the one being handled (a dropped frame is not appended later); and in a plain
\* session a frame that meets a ready input is appended.
C18_NotReadyFrameIsDropped ==
  /\ [][lastOp' = "FrameDropped" =>
         /\ \A w \in Sessions : /\ writers'[w].app = writers[w].app
                                /\ writers'[w].frames = writers[w].frames
                                /\ writers'[w].st = writers[w].st
         /\ UNCHANGED <<status, status_var, isRecording, streams, work, stopPc>>]_vars
  /\ [][\A w \in Sessions : writers'[w].app \subseteq writers[w].app \cup {pts}]_vars
  /\ [][(lastOp' = "FrameReady" /\ PlainRun) =>
         \E w \in Sessions : pts \in writers'[w].app /\ pts \notin writers[w].app]_vars

\* C18 witness: a Recording push session whose first frame was dropped and whose
\* second frame, met by a ready input, has just been appended.
C18_Witness ==
  /\ variant = "push" /\ lastOp = "FrameReady"
  /\ isRecording /\ Kind(status) = "Recording"
  /\ \E w \in Sessions : writers[w].t0 = 0 /\ writers[w].app = {1}

\* ---- helper of the claim about pacing
MaxOf(a, b) == IF a >= b THEN a ELSE b

\* C19: after each captured frame the pull loop sleeps max(0, T - elapsed), T the
\* frame interval 1/fps: never a negative time, nothing when the frame took T or
\* longer; and every iteration captures exactly one frame, however late it runs.
C19_PacingSleep ==
  /\ slept >= 0
  /\ (ppc = "top" /\ laps > 0) =>
       /\ slept = MaxOf(0, FrameInterval - elapsed)
       /\ (elapsed >= FrameInterval => slept = 0)
  /\ ppc = "top" => captures = laps
  /\ ppc = "pace" => captures = laps + 1

\* C19 witness: two iterations done, the second one ran behind (it took longer than
\* the frame interval) and did not sleep; both captured their frame.
C19_Witness ==
  ppc = "top" /\ laps = 2 /\ captures = 2 /\ elapsed > FrameInterval /\ slept = 0

\* ---- helper of the claim about frames outside the recording
\* pull: worker s has left the capture loop (it saw the flag clear, or it raised)
LeftLoop(s) == rec[s] \in {"except_loop", "fin_sct", "fin_writer", "fin_post", "fin_flag", "done"}

\* C20: no frame reaches a writer outside the recording.  Push: a step taken while
\* the recording flag is clear (before setup has completed, after the terminal status)
\* starts no writer session and appends nothing, and nothing is appended to a writer
\* whose input was marked finished.  Pull: a worker that has left its loop never
\* grabs or writes again.
C20_NoFrameOutsideRecording ==
  /\ [][(variant = "push" /\ ~isRecording) =>
         \A w \in Sessions : /\ writers'[w].app = writers[w].app
                                /\ writers'[w].t0 = writers[w].t0]_vars
  /\ [][\A w \in Sessions :
         (variant = "push" /\ writers[w].marked) => writers'[w].app = writers[w].app]_vars
  /\ [][\A s \in Sessions :
         (variant = "pull" /\ LeftLoop(s)) => LeftLoop(s)']_vars

\* ---- helpers of the claim about the UI context
\* a step of a worker thread: of work() (test.py:80-86, with the callback it calls)
\* or of _record_worker (test2.py:106-200)
WorkerThreadStep ==
  \E s \in Sessions :
    \/ CreateWriter(s) \/ AddInput(s) \/ StartWriting(s) \/ CreateStream(s)
    \/ StartCapture(s) \/ StartCaptureAgain(s) \/ SetStatus(s) \/ SetRecording(s)
    \/ CallbackErr(s)
    \/ MakePath(s) \/ OpenWriter(s) \/ OpenSct(s) \/ LoopTest(s) \/ Grab(s)
    \/ WriteFrame(s) \/ Except(s) \/ FinSct(s) \/ FinWriter(s) \/ FinPost(s) \/ FinFlag(s)
\* a step of a platform callback thread: the delegate callbacks and the completion
\* handlers of the stop (test.py:96-125, 285-290)
PlatformThreadStep ==
  \/ \E s \in Sessions : DeliverFrame(s) \/ StreamDidStopWithError(s)
  \/ \E k \in StopIds : \/ StopCompleted(k) \/ FinishWriting(k) \/ Finalized(k)
                        \/ OnDoneStatus(k) \/ OnDoneFlag(k)

\* C21: no step of a worker thread or of a platform callback thread sets the status
\* variable the window shows or changes the recording flag; such a step only posts to
\* the UI context (the queue of root.after callbacks).
C21_OnlyUiContextTouchesSessionState ==
  [][(WorkerThreadStep \/ PlatformThreadStep) =>
       UNCHANGED <<status_var, isRecording, is_recording>>]_vars

\* ---- helper of the claim about the cleanup of an earlier worker
\* pull: worker s is in the finally block of _record_worker (test2.py:168-200)
InCleanup(s) == rec[s] \in {"fin_sct", "fin_writer", "fin_post", "fin_flag"}

\* C22: in the pull recorder a step of the cleanup of an earlier session's worker
\* never releases the writer that the worker of a later Start has opened and never
\* clears the recording flag while the session of a later Start is in its setup or in
\* its capture loop.
C22_CleanupSparesLaterSession ==
  [][\A s, r \in Sessions :
       (variant = "pull" /\ s < r /\ InCleanup(s) /\ rec'[s] # rec[s])
       => /\ OpenWriterPull(r) => OpenWriterPull(r)'
          /\ (is_recording /\ (InSetupPull(r) \/ InLoopPull(r))) => is_recording']_vars

\* ---- helpers of the claim about a Stop before the recording has started
\* pull: the step is line 198 of worker s: it posts its final status
PostsFinal(s) == variant = "pull" /\ rec[s] = "fin_post" /\ rec'[s] = "fin_flag"
\* the status posted last by the step
Posted == afterQ'[Len(afterQ')]
\* pull: the capture loop of worker s has written a frame to the writer it opened
LoopRan(s) == vwriters[s].frames > 0

\* C23: in the pull recorder a session that was stopped before its capture loop wrote
\* any frame (the Stop came during the setup, while "Initializing..." was shown, or
\* before the first test of the flag) ends with "Stopped before recording fully
\* started." and not with "Saved: <file>"; and a worker that met no exception posts
\* "Saved: <file>" only when its capture loop ran.
C23_StopBeforeLoopIsStoppedEarly ==
  [][\A s \in Sessions : (PostsFinal(s) /\ loc[s].err = "none") =>
       /\ (rec[2] = "none" /\ ~LoopRan(s)) => Kind(Posted) = "StoppedEarly"
       /\ Kind(Posted) = "Saved" => LoopRan(s)]_vars

\* ---- helpers of the claim about the start request
\* push: worker s has not raised (it is in _set_up_capture or has returned from it)
NotRaised(s) == work[s] \notin {"none", "cb_err", "failed"}
\* push: the start requests a worker that has not raised has issued to self._stream:
\* one when it has passed lines 253-273 (startCaptureAndReturnError_ or
\* startCaptureWithCompletionHandler_), one more when it has passed line 275
StartRequests(s) ==
  CASE work[s] \in {"setStatus", "setFlag", "done"} -> 2
    [] work[s] = "startAgain" -> 1
    [] OTHER -> 0
\* push: the setup of worker s has returned (test.py:82 is over)
SetupReturned(s) == work[s] \in {"setFlag", "done"}

\* C24: in the push recorder a setup that has returned has issued the start request
\* to its stream exactly once, and once the start request of lines 253-273 has
\* succeeded the setup does not fail any more.
C24_OneStartRequest ==
  /\ [](\A s \in Sessions :
          (variant = "push" /\ NotRaised(s) /\ SetupReturned(s)) => StartRequests(s) = 1)
  /\ [][\A s \in Sessions :
          (variant = "push" /\ work[s] = "startAgain") => work'[s] # "cb_err"]_vars

\* ---- helpers of the claim about the overlays
\* an iteration of the main loop is over: its last statement before the run loop has
\* run, or an exception has ended it
IterationOver == (vpc = "remove" /\ todo = {}) \/ vpc = "crashed"
\* the overlay windows on screen
ShownOverlays == {o \in OverlayIds : overlays[o].st = "shown"}

\* C25: after every iteration of the main loop of main.py the windows that have an
\* entry in the overlay table are the blacklisted windows on screen (as polled by the
\* iteration); no entry is None; every entry is a shown overlay of its own that covers
\* the bounds of its window; no other overlay is shown; and an overlay, once in the
\* table, is never replaced and leaves the table only when its window has vanished.
C25_OverlaysMatchWindows ==
  /\ [](IterationOver =>
          /\ DOMAIN veil_windows = DOMAIN current
          /\ \A w \in DOMAIN veil_windows :
               /\ veil_windows[w] # None
               /\ overlays[veil_windows[w]].st = "shown"
               /\ Covers(overlays[veil_windows[w]].frame) = current[w]
          /\ \A v, w \in DOMAIN veil_windows : veil_windows[v] = veil_windows[w] => v = w
          /\ ShownOverlays = {veil_windows[w] : w \in DOMAIN veil_windows})
  /\ [][\A w \in DOMAIN veil_windows :
          /\ w \in DOMAIN veil_windows' => veil_windows'[w] = veil_windows[w]
          /\ w \notin DOMAIN veil_windows' => w \notin DOMAIN current]_vars

====
